---------------------------- MODULE Spec2Model ----------------------------
(***************************************************************************)
(* The APIv3 resource controllers of readthedocs/api/v3/views.py as a      *)
(* state machine over the database tables they read and write.             *)
(*                                                                         *)
(* Every request handler is one action: it reads the tables, writes them   *)
(* and leaves the request it served and the response it produced in the    *)
(* variables request and response.  The Version update handler is split    *)
(* at its database accesses (read, write, reload, hook).                   *)
(*                                                                         *)
(* The handlers of one resource family touch only that family's table and  *)
(* read the projects table, so there is one specification per family       *)
(* (SpecProjects, SpecSubprojects, SpecVersions, SpecBuilds,               *)
(* SpecRedirects, SpecEnvironmentVariables), one for the creates and       *)
(* destroys of the two resources whose project is injected                 *)
(* (SpecProjectResources), and the specification of the whole API (Spec).  *)
(***************************************************************************)
EXTENDS Integers, Sequences, FiniteSets, TLC

(***************************************************************************)
(* Bounds of the model.                                                    *)
(***************************************************************************)
\* projects that exist before the first request; their slugs are 1..NumProjects
NumProjects == 2
\* authenticated callers 1..NumUsers
NumUsers == 2
\* projects imported through the API get the slugs NumProjects+1 .. NumProjects+MaxImports
MaxImports == 1

\* every project that exists before the first request has the versions 1..NumVersions
NumVersions == 1
\* subproject aliases 1..NumAliases
NumAliases == 2
\* rows the ProjectRelationship table ever gets
MaxRelationships == 2

\* rows the Build table ever gets
MaxBuilds == 2
\* rows the Redirect table ever gets
MaxRedirects == 1
\* rows the EnvironmentVariable table ever gets
MaxEnvironmentVariables == 1
\* workers that serve Version update requests
NumWorkers == 2

SeededSlugs == 1..NumProjects
Workers == 1..NumWorkers
\* the version slugs requests name; the last one is no version
RequestVersions == 1..(NumVersions + 1)
\* the values the field of a Redirect or an EnvironmentVariable takes
Values == {"a", "b"}
\* a field left blank
Blank == ""
\* the slugs the requests of the nested resources name; the last one is no project
RequestSlugs == 1..(NumProjects + 1)
VersionSlugs == 1..NumVersions
Aliases == 1..NumAliases
ImportSlugs == (NumProjects + 1)..(NumProjects + MaxImports)
\* every slug a request may name; the last one never resolves
Slugs == 1..(NumProjects + MaxImports + 1)
Users == 1..NumUsers

VARIABLES
    projects,       \* Project table: slug -> [public, admins]
    relationships,  \* ProjectRelationship table: pk -> [parent, child, alias]
    versions,       \* Version table: <<project, version_slug>> -> [active]
    builds,         \* Build table: pk -> [project, version, state]
    redirects,      \* Redirect table: pk -> [project, from_url]
    envvars,        \* EnvironmentVariable table: pk -> [project, name, value]
    sequences,      \* the next primary key of each table
    request,        \* the request being served by an atomic handler
    response,       \* the response produced for it
    workers         \* the Version update calls in flight, one per worker

tables == <<projects, relationships, versions, builds, redirects, envvars, sequences>>

(***************************************************************************)
(* HTTP status codes (rest_framework.status).                              *)
(***************************************************************************)
HTTP_200_OK == 200
HTTP_201_CREATED == 201
HTTP_202_ACCEPTED == 202
HTTP_204_NO_CONTENT == 204
HTTP_400_BAD_REQUEST == 400
HTTP_403_FORBIDDEN == 403
HTTP_404_NOT_FOUND == 404
HTTP_405_METHOD_NOT_ALLOWED == 405
\* an exception that no handler catches leaves the view: Django answers 500
HTTP_500_INTERNAL_SERVER_ERROR == 500

\* no request is being served
NoRequest == [op |-> "none"]
NoResponse == [op |-> "none", status |-> 0, schema |-> "None"]
Idle == request = NoRequest
\* an atomic handler takes a request; the Version update calls do not move
Accept == Idle /\ UNCHANGED workers

\* the response leaves the server and the request/response cycle ends
Deliver ==
    /\ ~Idle
    /\ request' = NoRequest
    /\ response' = NoResponse
    /\ UNCHANGED <<tables, workers>>

\* the response of a request that raised: no body
ErrorResponse(op, code) == [op |-> op, status |-> code, schema |-> "None"]

(***************************************************************************)
(* The actions each viewset routes: the union of what its mixins provide.  *)
(***************************************************************************)
CreateModelMixin == {"create"}
DestroyModelMixin == {"destroy"}
ListModelMixin == {"list"}
RetrieveModelMixin == {"retrieve"}
UpdateModelMixin == {"update", "partial_update"}
ReadOnlyModelViewSet == ListModelMixin \cup RetrieveModelMixin
ModelViewSet ==
    CreateModelMixin \cup RetrieveModelMixin \cup UpdateModelMixin
        \cup DestroyModelMixin \cup ListModelMixin

(***************************************************************************)
(* The database before the first request.                                  *)
(***************************************************************************)
\* a worker that serves no Version update
IdleWorker == [pc |-> "idle", calls |-> 0]

\* a table without rows
EmptyTable == [pk \in {} |-> 0]
\* the table without the row pk
Delete(table, pk) == [k \in DOMAIN table \ {pk} |-> table[k]]

\* the projects that exist already: project s belongs to one user, and every
\* second one is public
SeededProject(s) == [public |-> (s % 2 = 1), admins |-> {((s - 1) % NumUsers) + 1}]

Init ==
    /\ projects = [s \in SeededSlugs |-> SeededProject(s)]
    /\ relationships = EmptyTable
    /\ versions = [k \in SeededSlugs \X VersionSlugs |-> [active |-> TRUE]]
    /\ builds = EmptyTable
    /\ redirects = EmptyTable
    /\ envvars = EmptyTable
    /\ sequences = [relationships |-> 1, builds |-> 1, redirects |-> 1, envvars |-> 1]
    /\ request = NoRequest
    /\ response = NoResponse
    /\ workers = [w \in Workers |-> IdleWorker]

vars == <<projects, relationships, versions, builds, redirects, envvars, sequences,
          request, response, workers>>

(***************************************************************************)
(* Query scoping and permissions (readthedocs/api/v3/mixins.py and         *)
(* permissions.py).                                                        *)
(***************************************************************************)
\* ProjectQuerySetMixin.admin_projects: the projects the caller administers
admin_projects(user) == {s \in DOMAIN projects : user \in projects[s].admins}

\* ProjectQuerySetMixin.get_queryset: every project the caller may observe
ScopedQueryset(user) ==
    {s \in DOMAIN projects : projects[s].public \/ user \in projects[s].admins}

\* ProjectQuerySetMixin._get_parent_project: the project of the URL, if it
\* resolves for this caller
ParentResolves(user, slug) == slug \in ScopedQueryset(user)

\* IsProjectAdmin
IsProjectAdmin(user, slug) == slug \in admin_projects(user)

(***************************************************************************)
(* ProjectsViewSetBase                                                     *)
(***************************************************************************)
Basenames == {"projects", "projects-nested"}

\* get_serializer_class; a Python function that falls off its end returns None
ProjectsGetSerializerClass(action) ==
    IF action \in {"list", "retrieve", "superproject"} THEN "ProjectSerializer"
    ELSE IF action = "create" THEN "ProjectCreateSerializer"
    ELSE IF action \in {"update", "partial_update"} THEN "ProjectUpdateSerializer"
    ELSE "None"

\* a get_queryset without the branch for the top-level list
ProjectsGetQuerysetNoOwnList(basename, action, user) == ScopedQueryset(user)

\* get_queryset
ProjectsGetQueryset(basename, action, user) ==
    IF basename = "projects" /\ action = "list"
    THEN admin_projects(user)
    ELSE ScopedQueryset(user)

\* ProjectCreateSerializer.is_valid: the name must give a slug no project has
ProjectCreateIsValid(body) == body.slug \in ImportSlugs \ DOMAIN projects

\* the row serializer.save() writes
NewProject(body) == [public |-> body.public, admins |-> {}]

\* ProjectImportMixin.finish_import_project when it succeeds: the importing
\* user becomes the project's maintainer
FinishImportProject(row, user) == [row EXCEPT !.admins = {user}]

\* create with perform_create: validate, save, finish the import, render
ProjectsCreate(user, body, hook) ==
    /\ Accept
    /\ request' = [op |-> "projects.create", user |-> user, body |-> body, hook |-> hook]
    /\ IF ~ProjectCreateIsValid(body)
       THEN /\ response' = ErrorResponse("projects.create", HTTP_400_BAD_REQUEST)
            /\ UNCHANGED projects
       ELSE IF hook = "raises"
       THEN \* nothing around finish_import_project catches the exception, and
            \* the row that perform_create saved stays (Django autocommits)
            /\ projects' = (body.slug :> NewProject(body)) @@ projects
            /\ response' = ErrorResponse("projects.create", HTTP_500_INTERNAL_SERVER_ERROR)
       ELSE /\ projects' = (body.slug :> FinishImportProject(NewProject(body), user)) @@ projects
            /\ response' = [op |-> "projects.create", status |-> HTTP_201_CREATED,
                            schema |-> "ProjectSerializer", instance |-> body.slug]
    /\ UNCHANGED <<relationships, versions, builds, redirects, envvars, sequences>>

\* ListModelMixin.list over get_queryset
ProjectsList(user, basename) ==
    /\ Accept
    /\ request' = [op |-> "projects.list", user |-> user, basename |-> basename]
    /\ response' = [op |-> "projects.list", status |-> HTTP_200_OK,
                    schema |-> ProjectsGetSerializerClass("list"),
                    results |-> ProjectsGetQueryset(basename, "list", user)]
    /\ UNCHANGED tables

\* RetrieveModelMixin.retrieve: get_object over get_queryset
ProjectsRetrieve(user, basename, slug) ==
    /\ Accept
    /\ request' = [op |-> "projects.retrieve", user |-> user, basename |-> basename,
                   slug |-> slug]
    /\ IF slug \in ProjectsGetQueryset(basename, "retrieve", user)
       THEN response' = [op |-> "projects.retrieve", status |-> HTTP_200_OK,
                         schema |-> ProjectsGetSerializerClass("retrieve"),
                         instance |-> slug]
       ELSE response' = ErrorResponse("projects.retrieve", HTTP_404_NOT_FOUND)
    /\ UNCHANGED tables

ProjectBodies == [slug : Slugs, public : BOOLEAN]

NextProjects ==
    \/ \E u \in Users, b \in ProjectBodies, h \in {"returns", "raises"} : ProjectsCreate(u, b, h)
    \/ \E u \in Users, bn \in Basenames : ProjectsList(u, bn)
    \/ \E u \in Users, bn \in Basenames, s \in Slugs : ProjectsRetrieve(u, bn, s)
    \/ Deliver

SpecProjects == Init /\ [][NextProjects]_vars

(***************************************************************************)
(* SubprojectRelationshipViewSet, and ProjectsViewSetBase.superproject     *)
(***************************************************************************)
SubprojectsActions == CreateModelMixin \cup DestroyModelMixin \cup ReadOnlyModelViewSet

\* get_serializer_class
SubprojectsGetSerializerClass(action) ==
    IF action = "create" THEN "SubprojectCreateSerializer"
    ELSE IF action = "destroy" THEN "SubprojectDestroySerializer"
    ELSE "SubprojectSerializer"

\* a serializer context that takes the parent from the request body
SubprojectsGetSerializerContextFromBody(slug, body) == [parent |-> body.parent]

\* get_serializer_context: the parent is the project of the URL
SubprojectsGetSerializerContext(slug, body) == [parent |-> slug]

\* the relationships of a parent project
subprojects(parent) == {pk \in DOMAIN relationships : relationships[pk].parent = parent}
\* the relationships of a child project
superprojects(child) == {pk \in DOMAIN relationships : relationships[pk].child = child}

\* SubprojectCreateSerializer.is_valid: the fields in error.  The alias must
\* be free under the parent of the context; the child is another project.
SubprojectCreateErrors(context, body) ==
    {f \in {"alias"} :
        \E pk \in subprojects(context.parent) : relationships[pk].alias = body.alias}
    \cup {f \in {"child"} : body.child \notin DOMAIN projects \/ body.child = context.parent}

\* serializer.save(parent=parent): the row written
SubprojectsSave(parent, body) ==
    [parent |-> parent, child |-> body.child, alias |-> body.alias]

\* create
SubprojectsCreate(user, slug, body) ==
    /\ Accept
    /\ request' = [op |-> "subprojects.create", slug |-> slug, body |-> body]
    /\ IF ~ParentResolves(user, slug)
       THEN /\ response' = ErrorResponse("subprojects.create", HTTP_404_NOT_FOUND)
            /\ UNCHANGED <<relationships, sequences>>
       ELSE IF ~IsProjectAdmin(user, slug)
       THEN /\ response' = ErrorResponse("subprojects.create", HTTP_403_FORBIDDEN)
            /\ UNCHANGED <<relationships, sequences>>
       ELSE LET parent == slug
                context == SubprojectsGetSerializerContext(slug, body)
                errors == SubprojectCreateErrors(context, body)
                pk == sequences.relationships
            IN IF errors # {}
               THEN /\ response' = [op |-> "subprojects.create",
                                    status |-> HTTP_400_BAD_REQUEST,
                                    schema |-> "None", errors |-> errors]
                    /\ UNCHANGED <<relationships, sequences>>
               ELSE /\ pk <= MaxRelationships
                    /\ relationships' = (pk :> SubprojectsSave(parent, body)) @@ relationships
                    /\ sequences' = [sequences EXCEPT !.relationships = pk + 1]
                    /\ response' = [op |-> "subprojects.create",
                                    status |-> HTTP_201_CREATED,
                                    schema |-> "SubprojectSerializer", instance |-> pk]
    /\ UNCHANGED <<projects, versions, builds, redirects, envvars>>

\* DestroyModelMixin.destroy: the relationship is looked up by its alias
\* among those of the parent of the URL
SubprojectsDestroy(user, slug, alias) ==
    /\ Accept
    /\ request' = [op |-> "subprojects.destroy", slug |-> slug, alias |-> alias]
    /\ LET found == {pk \in subprojects(slug) : relationships[pk].alias = alias}
       IN IF ~ParentResolves(user, slug) \/ found = {}
          THEN /\ response' = ErrorResponse("subprojects.destroy", HTTP_404_NOT_FOUND)
               /\ UNCHANGED relationships
          ELSE IF ~IsProjectAdmin(user, slug)
          THEN /\ response' = ErrorResponse("subprojects.destroy", HTTP_403_FORBIDDEN)
               /\ UNCHANGED relationships
          ELSE /\ relationships' = Delete(relationships, CHOOSE pk \in found : TRUE)
               /\ response' = [op |-> "subprojects.destroy", status |-> HTTP_204_NO_CONTENT,
                               schema |-> "None"]
    /\ UNCHANGED <<projects, versions, builds, redirects, envvars, sequences>>

\* the smallest element of a non-empty set of primary keys
First(pks) == CHOOSE pk \in pks : \A other \in pks : pk <= other

\* a lookup that fails when more than one relationship matches (.get())
SuperprojectLookupGet(slug) ==
    IF Cardinality(superprojects(slug)) # 1
    THEN ErrorResponse("projects.superproject", HTTP_404_NOT_FOUND)
    ELSE [op |-> "projects.superproject", status |-> HTTP_200_OK,
          schema |-> ProjectsGetSerializerClass("superproject"),
          instance |-> relationships[First(superprojects(slug))].parent]

\* the try block of superproject: project.superprojects.first().parent;
\* first() of no rows is None, and the AttributeError is caught
SuperprojectLookup(slug) ==
    IF superprojects(slug) = {}
    THEN ErrorResponse("projects.superproject", HTTP_404_NOT_FOUND)
    ELSE [op |-> "projects.superproject", status |-> HTTP_200_OK,
          schema |-> ProjectsGetSerializerClass("superproject"),
          instance |-> relationships[First(superprojects(slug))].parent]

\* superproject
ProjectsSuperproject(user, slug) ==
    /\ Accept
    /\ request' = [op |-> "projects.superproject", user |-> user, slug |-> slug]
    /\ IF slug \notin ProjectsGetQueryset("projects", "superproject", user)
       THEN response' = ErrorResponse("projects.superproject", HTTP_404_NOT_FOUND)
       ELSE response' = SuperprojectLookup(slug)
    /\ UNCHANGED tables

SubprojectBodies == [child : RequestSlugs, alias : Aliases, parent : SeededSlugs]

NextSubprojects ==
    \/ \E u \in Users, s \in RequestSlugs, b \in SubprojectBodies : SubprojectsCreate(u, s, b)
    \/ \E u \in Users, s \in RequestSlugs, a \in Aliases : SubprojectsDestroy(u, s, a)
    \/ \E u \in Users, s \in RequestSlugs : ProjectsSuperproject(u, s)
    \/ Deliver

SpecSubprojects == Init /\ [][NextSubprojects]_vars

(***************************************************************************)
(* VersionsViewSet                                                         *)
(***************************************************************************)
VersionsActions == UpdateModelMixin \cup ReadOnlyModelViewSet

\* get_serializer_class
VersionsGetSerializerClass(action) ==
    IF action \in {"list", "retrieve"} THEN "VersionSerializer"
    ELSE "VersionUpdateSerializer"

\* what a body may say about the field active
ActiveInputs == {"True", "False", "absent", "invalid"}

\* UpdateMixin.update: the response of a successful update
UpdateMixinResult(op, read_schema) ==
    [op |-> op, status |-> HTTP_200_OK, schema |-> read_schema]

\* a hook call that reads the old value from the reloaded version
PostSaveCallAfterReload(worker) ==
    [was_active |-> worker.version.active, active |-> worker.version.active]

\* version.post_save(was_active=was_active): what the hook observes, the
\* snapshot taken before the update and the version reloaded after it
PostSaveCall(worker) ==
    [was_active |-> worker.was_active, active |-> worker.version.active]

\* version = self.get_object(); was_active = version.active
VersionsUpdateGetObject(w, user, slug, vslug, body) ==
    /\ workers[w].pc = "idle"
    /\ LET key == <<slug, vslug>>
       IN IF ~ParentResolves(user, slug) \/ key \notin DOMAIN versions
          THEN workers' = [workers EXCEPT ![w] =
                              [pc |-> "done", calls |-> 0,
                               response |-> ErrorResponse("versions.update", HTTP_404_NOT_FOUND)]]
          ELSE IF ~IsProjectAdmin(user, slug)
          THEN workers' = [workers EXCEPT ![w] =
                              [pc |-> "done", calls |-> 0,
                               response |-> ErrorResponse("versions.update", HTTP_403_FORBIDDEN)]]
          ELSE workers' = [workers EXCEPT ![w] =
                              [pc |-> "snapshot", calls |-> 0, key |-> key, body |-> body,
                               was_active |-> versions[key].active]]
    /\ UNCHANGED <<tables, request, response>>

\* super().update(): instance = self.get_object(), serializer.is_valid()
VersionsUpdateValidate(w) ==
    /\ workers[w].pc = "snapshot"
    /\ LET wk == workers[w]
       IN IF wk.body.active = "invalid"
          THEN workers' = [workers EXCEPT ![w] =
                              [pc |-> "done", calls |-> 0,
                               response |-> ErrorResponse("versions.update", HTTP_400_BAD_REQUEST)]]
          ELSE workers' = [workers EXCEPT ![w] =
                              [pc |-> "validated", calls |-> 0, key |-> wk.key,
                               body |-> wk.body, was_active |-> wk.was_active,
                               instance |-> versions[wk.key]]]
    /\ UNCHANGED <<tables, request, response>>

\* super().update(): serializer.save() writes the instance with the fields of
\* the body set.  before and wrote record the stored value right before the
\* write and the value written.
VersionsUpdateSave(w) ==
    /\ workers[w].pc = "validated"
    /\ LET wk == workers[w]
           row == IF wk.body.active = "absent" THEN wk.instance
                  ELSE [wk.instance EXCEPT !.active = (wk.body.active = "True")]
       IN /\ versions' = [versions EXCEPT ![wk.key] = row]
          /\ workers' = [workers EXCEPT ![w] =
                            [pc |-> "saved", calls |-> 0, key |-> wk.key,
                             was_active |-> wk.was_active,
                             before |-> versions[wk.key].active, wrote |-> row.active,
                             response |-> UpdateMixinResult("versions.update",
                                              VersionsGetSerializerClass("retrieve"))]]
    /\ UNCHANGED <<projects, relationships, builds, redirects, envvars, sequences,
                   request, response>>

\* version = self.get_object(): the updated version
VersionsUpdateReload(w) ==
    /\ workers[w].pc = "saved"
    /\ LET wk == workers[w]
       IN workers' = [workers EXCEPT ![w] =
                         [pc |-> "reloaded", calls |-> 0, key |-> wk.key,
                          was_active |-> wk.was_active, before |-> wk.before,
                          wrote |-> wk.wrote, version |-> versions[wk.key],
                          response |-> wk.response]]
    /\ UNCHANGED <<tables, request, response>>

\* version.post_save(was_active=was_active); return result
VersionsUpdatePostSave(w) ==
    /\ workers[w].pc = "reloaded"
    /\ LET wk == workers[w]
       IN workers' = [workers EXCEPT ![w] =
                         [pc |-> "done", calls |-> wk.calls + 1, key |-> wk.key,
                          before |-> wk.before, wrote |-> wk.wrote,
                          hook |-> PostSaveCall(wk), response |-> wk.response]]
    /\ UNCHANGED <<tables, request, response>>

\* the response leaves the server
VersionsDeliver(w) ==
    /\ workers[w].pc = "done"
    /\ workers' = [workers EXCEPT ![w] = IdleWorker]
    /\ UNCHANGED <<tables, request, response>>

\* no other worker serves a Version update
AloneAt(w) == \A o \in Workers \ {w} : workers[o].pc = "idle"

\* the Version update requests served one after the other
NextVersions ==
    \/ \E w \in Workers, u \in Users, s \in RequestSlugs, v \in VersionSlugs,
          a \in ActiveInputs :
          AloneAt(w) /\ VersionsUpdateGetObject(w, u, s, v, [active |-> a])
    \/ \E w \in Workers : VersionsUpdateValidate(w)
    \/ \E w \in Workers : VersionsUpdateSave(w)
    \/ \E w \in Workers : VersionsUpdateReload(w)
    \/ \E w \in Workers : VersionsUpdatePostSave(w)
    \/ \E w \in Workers : VersionsDeliver(w)

SpecVersions == Init /\ [][NextVersions]_vars

(***************************************************************************)
(* Claims about VersionsViewSet.                                           *)
(***************************************************************************)
\* C2: in a Version update the value of active is read before the write, the
\* update is applied, the version is reloaded and the hook is called exactly
\* once, after the write, with was_active the value stored before the update
\* and the reloaded version carrying the value the update wrote.
C2_HookSeesOldAndNew ==
    \A w \in Workers :
        LET wk == workers[w]
        IN /\ wk.calls <= 1
           /\ wk.calls = 1
                => /\ wk.pc = "done"
                   /\ wk.hook.was_active = wk.before
                   /\ wk.hook.active = wk.wrote
                   /\ versions[wk.key].active = wk.wrote
           /\ (wk.pc = "done" /\ wk.response.status = HTTP_200_OK) => wk.calls = 1
           /\ wk.pc \in {"idle", "snapshot", "validated", "saved", "reloaded"}
                => wk.calls = 0

\* an update active=true -> false reached the hook
C2_Witness ==
    \E w \in Workers :
        /\ workers[w].pc = "done"
        /\ workers[w].calls = 1
        /\ workers[w].hook = [was_active |-> TRUE, active |-> FALSE]
        /\ workers[w].before = TRUE
        /\ workers[w].wrote = FALSE

\* the Version update requests served concurrently: the workers share only
\* the database, and nothing orders the steps of one request against the
\* steps of another
NextVersionsConcurrent ==
    \/ \E w \in Workers, u \in Users, s \in RequestSlugs, v \in VersionSlugs,
          a \in ActiveInputs :
          VersionsUpdateGetObject(w, u, s, v, [active |-> a])
    \/ \E w \in Workers : VersionsUpdateValidate(w)
    \/ \E w \in Workers : VersionsUpdateSave(w)
    \/ \E w \in Workers : VersionsUpdateReload(w)
    \/ \E w \in Workers : VersionsUpdatePostSave(w)
    \/ \E w \in Workers : VersionsDeliver(w)

SpecVersionsConcurrent == Init /\ [][NextVersionsConcurrent]_vars

\* C12: under any interleaving of concurrent Version update requests, the
\* was_active each request passes to the hook is the value stored right
\* before its own write, and the active the hook sees on the reloaded version
\* is the value that request wrote.
C12_SnapshotWriteReloadAtomic ==
    \A w \in Workers :
        workers[w].calls = 1
            => /\ workers[w].hook.was_active = workers[w].before
               /\ workers[w].hook.active = workers[w].wrote

\* the part of C12 the code keeps: the hook is called exactly once per
\* successful update, after that update's write
C12_HookOncePerUpdate ==
    \A w \in Workers :
        /\ workers[w].calls <= 1
        /\ workers[w].calls = 1 => workers[w].pc = "done"
        /\ (workers[w].pc = "done" /\ workers[w].response.status = HTTP_200_OK)
                => workers[w].calls = 1

\* the hook of a request was called with a was_active that another request's
\* write had replaced before this request wrote
C12_WitnessStaleWasActive ==
    \E w \in Workers :
        /\ workers[w].calls = 1
        /\ workers[w].hook.was_active # workers[w].before

\* the hook of a request saw on the reloaded version a value another request
\* wrote
C12_WitnessForeignReload ==
    \E w \in Workers :
        /\ workers[w].calls = 1
        /\ workers[w].hook.active # workers[w].wrote

(***************************************************************************)
(* BuildsViewSet, BuildsCreateViewSet                                      *)
(***************************************************************************)
BuildsCreateActions == ReadOnlyModelViewSet \cup CreateModelMixin

\* BuildsViewSet.serializer_class
BuildsGetSerializerClass(action) == "BuildSerializer"

\* get_serializer_class
BuildsCreateGetSerializerClass(action) ==
    IF action = "create" THEN "BuildCreateSerializer"
    ELSE BuildsGetSerializerClass(action)

\* the builds of a version that the build engine has not finished
InFlight(slug, vslug) ==
    {pk \in DOMAIN builds :
        /\ builds[pk].project = slug
        /\ builds[pk].version = vslug
        /\ builds[pk].state = "triggered"}

\* Python's None, where a primary key is expected
None == 0

\* readthedocs.core.utils.trigger_build: the primary key of the build it
\* creates, or None when it declines because the version has a build in flight
TriggerBuild(slug, vslug) ==
    IF InFlight(slug, vslug) # {} THEN None ELSE sequences.builds

\* the rest of create, from the build the gateway returned.  The data are
\* assembled before `if build` is reached: with build None, build.version
\* raises AttributeError, which nothing catches.
BuildsCreateResponse(build, slug, vslug) ==
    IF build = None
    THEN ErrorResponse("builds.create", HTTP_500_INTERNAL_SERVER_ERROR)
    ELSE [op |-> "builds.create", status |-> HTTP_202_ACCEPTED,
          schema |-> "BuildSerializer",
          data |-> [build |-> build, project |-> slug, version |-> vslug,
                    triggered |-> TRUE]]

\* create
BuildsCreate(user, slug, vslug) ==
    /\ Accept
    /\ request' = [op |-> "builds.create", slug |-> slug, version |-> vslug]
    /\ IF ~ParentResolves(user, slug) \/ <<slug, vslug>> \notin DOMAIN versions
       THEN /\ response' = ErrorResponse("builds.create", HTTP_404_NOT_FOUND)
            /\ UNCHANGED <<builds, sequences>>
       ELSE IF ~IsProjectAdmin(user, slug)
       THEN /\ response' = ErrorResponse("builds.create", HTTP_403_FORBIDDEN)
            /\ UNCHANGED <<builds, sequences>>
       ELSE LET build == TriggerBuild(slug, vslug)
            IN /\ IF build = None
                  THEN UNCHANGED <<builds, sequences>>
                  ELSE /\ build <= MaxBuilds
                       /\ builds' = (build :> [project |-> slug, version |-> vslug,
                                               state |-> "triggered"]) @@ builds
                       /\ sequences' = [sequences EXCEPT !.builds = build + 1]
               /\ response' = BuildsCreateResponse(build, slug, vslug)
    /\ UNCHANGED <<projects, relationships, versions, redirects, envvars>>

\* the build engine finishes a build
BuildFinish(pk) ==
    /\ pk \in DOMAIN builds
    /\ builds[pk].state = "triggered"
    /\ builds' = [builds EXCEPT ![pk].state = "finished"]
    /\ UNCHANGED <<projects, relationships, versions, redirects, envvars, sequences,
                   request, response, workers>>

NextBuilds ==
    \/ \E u \in Users, s \in RequestSlugs, v \in RequestVersions : BuildsCreate(u, s, v)
    \/ \E pk \in 1..MaxBuilds : BuildFinish(pk)
    \/ Deliver

SpecBuilds == Init /\ [][NextBuilds]_vars

(***************************************************************************)
(* Claims about BuildsCreateViewSet.                                       *)
(***************************************************************************)
\* C1: build create on a resolved (project, version) answers 202 with the
\* build, the project, the version and triggered=true when the gateway
\* returns a build, and 400 with triggered=false and no build when the
\* gateway declines; it never answers a server error.
C1_TriggerAnswers202Or400 ==
    (request.op = "builds.create"
        /\ response.status \notin {HTTP_404_NOT_FOUND, HTTP_403_FORBIDDEN})
      => \/ /\ response.status = HTTP_202_ACCEPTED
            /\ response.data.triggered
            /\ response.data.build \in DOMAIN builds
            /\ response.data.project = request.slug
            /\ response.data.version = request.version
         \/ /\ response.status = HTTP_400_BAD_REQUEST
            /\ ~response.data.triggered

\* the build trigger was declined: the version had a build in flight when
\* the request was served
C1_WitnessDeclined ==
    /\ request.op = "builds.create"
    /\ response.status = HTTP_500_INTERNAL_SERVER_ERROR
    /\ InFlight(request.slug, request.version) # {}

\* no version has two builds in flight
AtMostOneInFlight ==
    \A s \in RequestSlugs, v \in RequestVersions : Cardinality(InFlight(s, v)) <= 1

\* C9: a build trigger that arrives while the version has a build in flight
\* answers 400 with triggered=false and creates no Build; no version ever has
\* more than one build in flight.
C9_InFlightIsDeclinedWith400 ==
    /\ []AtMostOneInFlight
    /\ [][request'.op = "builds.create" =>
            \A u \in Users :
              LET s == request'.slug
                  v == request'.version
              IN (BuildsCreate(u, s, v) /\ ParentResolves(u, s) /\ IsProjectAdmin(u, s)
                    /\ InFlight(s, v) # {})
                 => /\ response'.status = HTTP_400_BAD_REQUEST
                    /\ ~response'.data.triggered
                    /\ builds' = builds]_vars

\* a trigger was served while the version had a build in flight, and the
\* Build table got no row for it
C9_WitnessArrivedInFlight ==
    /\ request.op = "builds.create"
    /\ response.status \notin {HTTP_202_ACCEPTED, HTTP_403_FORBIDDEN, HTTP_404_NOT_FOUND}
    /\ Cardinality(InFlight(request.slug, request.version)) = 1
    /\ Cardinality(DOMAIN builds) = sequences.builds - 1

\* the part of C9 the code keeps: a trigger that arrives while the version
\* has a build in flight creates no Build, and no version ever has more than
\* one build in flight
C9_NoDuplicateBuild ==
    /\ []AtMostOneInFlight
    /\ [][request'.op = "builds.create" =>
            \A u \in Users :
              (BuildsCreate(u, request'.slug, request'.version)
                    /\ InFlight(request'.slug, request'.version) # {})
                 => builds' = builds]_vars

(***************************************************************************)
(* RedirectsViewSet                                                        *)
(***************************************************************************)
RedirectsActions == ModelViewSet

\* get_serializer_class
RedirectsGetSerializerClass(action) ==
    IF action \in {"create", "update", "partial_update"} THEN "RedirectCreateSerializer"
    ELSE "RedirectDetailSerializer"

\* serializer.validated_data: the fields the write schema declares; the
\* project is no field a client sets
ValidatedData(body) == [value |-> body.value]

\* the body passes validation
IsValid(body) == body.value \in Values

\* a perform_create that saves what validation left (CreateModelMixin's)
PerformCreateNotInjecting(validated_data, slug) ==
    [project |-> None, value |-> validated_data.value]

\* perform_create: validated_data.update({"project": parent}); save()
RedirectsPerformCreate(validated_data, slug) ==
    [project |-> slug, value |-> validated_data.value]

\* CreateModelMixin.create: the response is rendered by the serializer that
\* validated the body
RedirectsCreate(user, slug, body) ==
    /\ Accept
    /\ request' = [op |-> "redirects.create", slug |-> slug, body |-> body]
    /\ IF ~ParentResolves(user, slug)
       THEN /\ response' = ErrorResponse("redirects.create", HTTP_404_NOT_FOUND)
            /\ UNCHANGED <<redirects, sequences>>
       ELSE IF ~IsProjectAdmin(user, slug)
       THEN /\ response' = ErrorResponse("redirects.create", HTTP_403_FORBIDDEN)
            /\ UNCHANGED <<redirects, sequences>>
       ELSE IF ~IsValid(body)
       THEN /\ response' = ErrorResponse("redirects.create", HTTP_400_BAD_REQUEST)
            /\ UNCHANGED <<redirects, sequences>>
       ELSE LET pk == sequences.redirects
            IN /\ pk <= MaxRedirects
               /\ redirects' = (pk :> RedirectsPerformCreate(ValidatedData(body), slug))
                                  @@ redirects
               /\ sequences' = [sequences EXCEPT !.redirects = pk + 1]
               /\ response' = [op |-> "redirects.create", status |-> HTTP_201_CREATED,
                               schema |-> RedirectsGetSerializerClass("create"),
                               instance |-> pk]
    /\ UNCHANGED <<projects, relationships, versions, builds, envvars>>

\* the row pk of a table, among the rows of the project of the URL
Found(table, slug, pk) == pk \in DOMAIN table /\ table[pk].project = slug

\* UpdateModelMixin.update
RedirectsUpdate(user, slug, pk, body) ==
    /\ Accept
    /\ request' = [op |-> "redirects.update", slug |-> slug, pk |-> pk, body |-> body]
    /\ IF ~ParentResolves(user, slug)
       THEN /\ response' = ErrorResponse("redirects.update", HTTP_404_NOT_FOUND)
            /\ UNCHANGED redirects
       ELSE IF ~IsProjectAdmin(user, slug)
       THEN /\ response' = ErrorResponse("redirects.update", HTTP_403_FORBIDDEN)
            /\ UNCHANGED redirects
       ELSE IF ~Found(redirects, slug, pk)
       THEN /\ response' = ErrorResponse("redirects.update", HTTP_404_NOT_FOUND)
            /\ UNCHANGED redirects
       ELSE IF ~IsValid(body)
       THEN /\ response' = ErrorResponse("redirects.update", HTTP_400_BAD_REQUEST)
            /\ UNCHANGED redirects
       ELSE /\ redirects' = [redirects EXCEPT ![pk].value = ValidatedData(body).value]
            /\ response' = [op |-> "redirects.update", status |-> HTTP_200_OK,
                            schema |-> RedirectsGetSerializerClass("update"),
                            instance |-> pk]
    /\ UNCHANGED <<projects, relationships, versions, builds, envvars, sequences>>

\* DestroyModelMixin.destroy
RedirectsDestroy(user, slug, pk) ==
    /\ Accept
    /\ request' = [op |-> "redirects.destroy", slug |-> slug, pk |-> pk]
    /\ IF ~ParentResolves(user, slug)
       THEN /\ response' = ErrorResponse("redirects.destroy", HTTP_404_NOT_FOUND)
            /\ UNCHANGED redirects
       ELSE IF ~IsProjectAdmin(user, slug)
       THEN /\ response' = ErrorResponse("redirects.destroy", HTTP_403_FORBIDDEN)
            /\ UNCHANGED redirects
       ELSE IF ~Found(redirects, slug, pk)
       THEN /\ response' = ErrorResponse("redirects.destroy", HTTP_404_NOT_FOUND)
            /\ UNCHANGED redirects
       ELSE /\ redirects' = Delete(redirects, pk)
            /\ response' = ErrorResponse("redirects.destroy", HTTP_204_NO_CONTENT)
    /\ UNCHANGED <<projects, relationships, versions, builds, envvars, sequences>>

(***************************************************************************)
(* EnvironmentVariablesViewSet                                             *)
(***************************************************************************)
\* the viewset with UpdateModelMixin among its bases
EnvironmentVariablesActionsWithUpdate ==
    CreateModelMixin \cup DestroyModelMixin \cup ReadOnlyModelViewSet \cup UpdateModelMixin

\* the bases of the class
EnvironmentVariablesActions ==
    CreateModelMixin \cup DestroyModelMixin \cup ReadOnlyModelViewSet

\* serializer_class
EnvironmentVariablesGetSerializerClass(action) == "EnvironmentVariableSerializer"

\* perform_create: validated_data.update({"project": parent}); save()
EnvironmentVariablesPerformCreate(validated_data, slug) ==
    [project |-> slug, value |-> validated_data.value]

\* CreateModelMixin.create
EnvironmentVariablesCreate(user, slug, body) ==
    /\ Accept
    /\ request' = [op |-> "environmentvariables.create", slug |-> slug, body |-> body]
    /\ IF ~ParentResolves(user, slug)
       THEN /\ response' = ErrorResponse("environmentvariables.create", HTTP_404_NOT_FOUND)
            /\ UNCHANGED <<envvars, sequences>>
       ELSE IF ~IsProjectAdmin(user, slug)
       THEN /\ response' = ErrorResponse("environmentvariables.create", HTTP_403_FORBIDDEN)
            /\ UNCHANGED <<envvars, sequences>>
       ELSE IF ~IsValid(body)
       THEN /\ response' = ErrorResponse("environmentvariables.create", HTTP_400_BAD_REQUEST)
            /\ UNCHANGED <<envvars, sequences>>
       ELSE LET pk == sequences.envvars
            IN /\ pk <= MaxEnvironmentVariables
               /\ envvars' = (pk :> EnvironmentVariablesPerformCreate(ValidatedData(body), slug))
                                @@ envvars
               /\ sequences' = [sequences EXCEPT !.envvars = pk + 1]
               /\ response' = [op |-> "environmentvariables.create",
                               status |-> HTTP_201_CREATED,
                               schema |-> EnvironmentVariablesGetSerializerClass("create"),
                               instance |-> pk]
    /\ UNCHANGED <<projects, relationships, versions, builds, redirects>>

\* a PUT or PATCH on an environment variable: the method is routed only when
\* the viewset has the action
EnvironmentVariablesUpdate(user, slug, pk, body) ==
    /\ Accept
    /\ request' = [op |-> "environmentvariables.update", slug |-> slug, pk |-> pk,
                   body |-> body]
    /\ IF ~ParentResolves(user, slug)
       THEN /\ response' = ErrorResponse("environmentvariables.update", HTTP_404_NOT_FOUND)
            /\ UNCHANGED envvars
       ELSE IF ~IsProjectAdmin(user, slug)
       THEN /\ response' = ErrorResponse("environmentvariables.update", HTTP_403_FORBIDDEN)
            /\ UNCHANGED envvars
       ELSE IF "update" \notin EnvironmentVariablesActions
       THEN /\ response' = ErrorResponse("environmentvariables.update",
                                         HTTP_405_METHOD_NOT_ALLOWED)
            /\ UNCHANGED envvars
       ELSE IF ~Found(envvars, slug, pk)
       THEN /\ response' = ErrorResponse("environmentvariables.update", HTTP_404_NOT_FOUND)
            /\ UNCHANGED envvars
       ELSE IF ~IsValid(body)
       THEN /\ response' = ErrorResponse("environmentvariables.update", HTTP_400_BAD_REQUEST)
            /\ UNCHANGED envvars
       ELSE /\ envvars' = [envvars EXCEPT ![pk].value = ValidatedData(body).value]
            /\ response' = [op |-> "environmentvariables.update", status |-> HTTP_200_OK,
                            schema |-> EnvironmentVariablesGetSerializerClass("update"),
                            instance |-> pk]
    /\ UNCHANGED <<projects, relationships, versions, builds, redirects, sequences>>

\* DestroyModelMixin.destroy
EnvironmentVariablesDestroy(user, slug, pk) ==
    /\ Accept
    /\ request' = [op |-> "environmentvariables.destroy", slug |-> slug, pk |-> pk]
    /\ IF ~ParentResolves(user, slug)
       THEN /\ response' = ErrorResponse("environmentvariables.destroy", HTTP_404_NOT_FOUND)
            /\ UNCHANGED envvars
       ELSE IF ~IsProjectAdmin(user, slug)
       THEN /\ response' = ErrorResponse("environmentvariables.destroy", HTTP_403_FORBIDDEN)
            /\ UNCHANGED envvars
       ELSE IF ~Found(envvars, slug, pk)
       THEN /\ response' = ErrorResponse("environmentvariables.destroy", HTTP_404_NOT_FOUND)
            /\ UNCHANGED envvars
       ELSE /\ envvars' = Delete(envvars, pk)
            /\ response' = ErrorResponse("environmentvariables.destroy", HTTP_204_NO_CONTENT)
    /\ UNCHANGED <<projects, relationships, versions, builds, redirects, sequences>>

\* the bodies of the requests on redirects and environment variables: a
\* project the client names (None when it names none) and a value
ResourceBodies == [project : SeededSlugs \cup {None}, value : Values \cup {Blank}]

\* the requests on redirects
NextRedirects ==
    \/ \E u \in Users, s \in RequestSlugs, b \in ResourceBodies : RedirectsCreate(u, s, b)
    \/ \E u \in Users, s \in RequestSlugs, pk \in 1..MaxRedirects, b \in ResourceBodies :
          RedirectsUpdate(u, s, pk, b)
    \/ \E u \in Users, s \in RequestSlugs, pk \in 1..MaxRedirects : RedirectsDestroy(u, s, pk)
    \/ Deliver

SpecRedirects == Init /\ [][NextRedirects]_vars

\* the requests on environment variables
NextEnvironmentVariables ==
    \/ \E u \in Users, s \in RequestSlugs, b \in ResourceBodies :
          EnvironmentVariablesCreate(u, s, b)
    \/ \E u \in Users, s \in RequestSlugs, pk \in 1..MaxEnvironmentVariables,
          b \in ResourceBodies : EnvironmentVariablesUpdate(u, s, pk, b)
    \/ \E u \in Users, s \in RequestSlugs, pk \in 1..MaxEnvironmentVariables :
          EnvironmentVariablesDestroy(u, s, pk)
    \/ Deliver

SpecEnvironmentVariables == Init /\ [][NextEnvironmentVariables]_vars

\* the requests that add and remove rows of the two resources
NextProjectResources ==
    \/ \E u \in Users, s \in RequestSlugs, b \in ResourceBodies : RedirectsCreate(u, s, b)
    \/ \E u \in Users, s \in RequestSlugs, pk \in 1..MaxRedirects : RedirectsDestroy(u, s, pk)
    \/ \E u \in Users, s \in RequestSlugs, b \in ResourceBodies :
          EnvironmentVariablesCreate(u, s, b)
    \/ \E u \in Users, s \in RequestSlugs, pk \in 1..MaxEnvironmentVariables :
          EnvironmentVariablesDestroy(u, s, pk)
    \/ Deliver

SpecProjectResources == Init /\ [][NextProjectResources]_vars

(***************************************************************************)
(* Claims about RedirectsViewSet and EnvironmentVariablesViewSet.          *)
(***************************************************************************)
\* C3: every Redirect create and every EnvironmentVariable create persists
\* its resource with the project of the URL, whatever project the body names.
C3_ProjectIsUrlParent ==
    /\ (request.op = "redirects.create" /\ response.status = HTTP_201_CREATED)
        => /\ response.instance \in DOMAIN redirects
           /\ redirects[response.instance].project = request.slug
    /\ (request.op = "environmentvariables.create" /\ response.status = HTTP_201_CREATED)
        => /\ response.instance \in DOMAIN envvars
           /\ envvars[response.instance].project = request.slug
    /\ \A pk \in DOMAIN redirects : redirects[pk].project \in DOMAIN projects
    /\ \A pk \in DOMAIN envvars : envvars[pk].project \in DOMAIN projects

\* a Redirect was created by a request whose body names another project than
\* the URL
C3_Witness ==
    /\ request.op = "redirects.create"
    /\ response.status = HTTP_201_CREATED
    /\ request.body.project # None
    /\ request.body.project # request.slug
    /\ redirects[response.instance].project = request.slug

\* the read schema of the resource a mutation is about
ReadSchema(op) ==
    CASE op = "projects.create" -> "ProjectSerializer"
      [] op = "subprojects.create" -> "SubprojectSerializer"
      [] op \in {"redirects.create", "redirects.update"} -> "RedirectDetailSerializer"
      [] op = "environmentvariables.create" -> "EnvironmentVariableSerializer"

\* C5: a successful create or update renders its response with the full read
\* schema of the resource, with status 201 for a create and 200 for an update.
C5_MutationAnswersReadSchema ==
    /\ (request.op \in {"projects.create", "subprojects.create", "redirects.create",
                        "environmentvariables.create"}
            /\ response.status \in {HTTP_200_OK, HTTP_201_CREATED})
        => /\ response.status = HTTP_201_CREATED
           /\ response.schema = ReadSchema(request.op)
    /\ (request.op = "redirects.update"
            /\ response.status \in {HTTP_200_OK, HTTP_201_CREATED})
        => /\ response.status = HTTP_200_OK
           /\ response.schema = ReadSchema(request.op)

\* a Redirect create succeeded
C5_WitnessRedirectCreated ==
    /\ request.op = "redirects.create"
    /\ response.status = HTTP_201_CREATED

\* C10: the EnvironmentVariable resource has no update and no partial_update
\* (a PUT or PATCH that reaches the viewset is answered 405), create and
\* destroy are the only requests that change the table, and no request
\* changes a field of an environment variable that exists before and after it.
C10_EnvironmentVariablesImmutable ==
    [][/\ \A pk \in DOMAIN envvars \cap DOMAIN envvars' : envvars'[pk] = envvars[pk]
       /\ \A pk \in DOMAIN envvars' \ DOMAIN envvars : pk = sequences.envvars
       /\ sequences'.envvars >= sequences.envvars
       /\ envvars' # envvars
            => request'.op \in {"environmentvariables.create", "environmentvariables.destroy"}
       /\ request'.op = "environmentvariables.update"
            => response'.status \in {HTTP_404_NOT_FOUND, HTTP_403_FORBIDDEN,
                                     HTTP_405_METHOD_NOT_ALLOWED}]_vars

\* the actions the EnvironmentVariable resource routes
C10_ActionsRouted ==
    EnvironmentVariablesActions = {"create", "list", "retrieve", "destroy"}

\* an update of an existing environment variable to another value was refused
C10_Witness ==
    /\ request.op = "environmentvariables.update"
    /\ response.status = HTTP_405_METHOD_NOT_ALLOWED
    /\ request.pk \in DOMAIN envvars
    /\ envvars[request.pk].project = request.slug
    /\ request.body.value \in Values
    /\ request.body.value # envvars[request.pk].value


(***************************************************************************)
(* Claims about ProjectsViewSetBase.                                       *)
(***************************************************************************)
\* C4: in Project create, once the project row is persisted, a failure of the
\* finish-import hook neither rolls the row back nor turns the response into
\* an error: the create answers 201.
C4_HookFailureStillCreated ==
    [][\A u \in Users, b \in ProjectBodies, h \in {"returns", "raises"} :
          (ProjectsCreate(u, b, h) /\ b.slug \notin DOMAIN projects
              /\ b.slug \in DOMAIN projects')
            => response'.status = HTTP_201_CREATED]_vars

\* the finish-import hook raised after the row of the project was persisted
C4_WitnessHookRaised ==
    /\ request.op = "projects.create"
    /\ request.hook = "raises"
    /\ request.body.slug \in DOMAIN projects
    /\ response.status = HTTP_500_INTERNAL_SERVER_ERROR

\* the half of C4 the code keeps: the row a create persisted is still there
\* when the hook raised
C4_RowSurvivesHookFailure ==
    (request.op = "projects.create" /\ request.hook = "raises"
        /\ response.status = HTTP_500_INTERNAL_SERVER_ERROR)
        => request.body.slug \in DOMAIN projects

\* C6: list on the top-level projects resource returns exactly the projects
\* the caller administers; every other action and every nested use of the
\* viewset goes through the general scoped queryset (public or administered).
C6_ListOwnProjects ==
    /\ (request.op = "projects.list" /\ request.basename = "projects")
        => response.results =
              {s \in DOMAIN projects : request.user \in projects[s].admins}
    /\ (request.op = "projects.list" /\ request.basename # "projects")
        => response.results =
              {s \in DOMAIN projects :
                  projects[s].public \/ request.user \in projects[s].admins}
    /\ request.op = "projects.retrieve"
        => (response.status = HTTP_200_OK
              <=> /\ request.slug \in DOMAIN projects
                  /\ \/ projects[request.slug].public
                     \/ request.user \in projects[request.slug].admins)

\* a caller retrieved, at the top-level resource, a public project that is not
\* in the list of the projects they administer
C6_Witness ==
    /\ request.op = "projects.retrieve"
    /\ request.basename = "projects"
    /\ response.status = HTTP_200_OK
    /\ projects[request.slug].public
    /\ request.user \notin projects[request.slug].admins

(***************************************************************************)
(* Claims about subprojects and superproject.                              *)
(***************************************************************************)
\* the project of a superproject request is visible to its caller
SuperprojectOnVisible ==
    /\ request.op = "projects.superproject"
    /\ request.slug \in DOMAIN projects
    /\ \/ projects[request.slug].public
       \/ request.user \in projects[request.slug].admins

\* C7 as stated: superproject on a visible project answers 200 with the parent
\* when the relationship with the project as child exists, and 404 otherwise,
\* also when several relationships make the lookup ambiguous.
C7_AmbiguousIsNotFound ==
    SuperprojectOnVisible =>
        LET rels == {pk \in DOMAIN relationships : relationships[pk].child = request.slug}
        IN IF Cardinality(rels) = 1
           THEN /\ response.status = HTTP_200_OK
                /\ \E pk \in rels : response.instance = relationships[pk].parent
           ELSE response.status = HTTP_404_NOT_FOUND

\* C7 amended: superproject on a visible project answers 200 with the parent
\* of the first (lowest primary key) relationship that has the project as
\* child, also when there are several, and 404 when there is none; it never
\* answers a server error.
C7_FirstSuperprojectOrNotFound ==
    /\ request.op = "projects.superproject"
        => response.status \in {HTTP_200_OK, HTTP_404_NOT_FOUND}
    /\ SuperprojectOnVisible =>
        LET rels == {pk \in DOMAIN relationships : relationships[pk].child = request.slug}
        IN IF rels # {}
           THEN /\ response.status = HTTP_200_OK
                /\ response.schema = "ProjectSerializer"
                /\ \E pk \in rels :
                      /\ \A other \in rels : pk <= other
                      /\ response.instance = relationships[pk].parent
           ELSE response.status = HTTP_404_NOT_FOUND

\* superproject answered 200 for a project that is the child of two relationships
C7_Witness ==
    /\ SuperprojectOnVisible
    /\ response.status = HTTP_200_OK
    /\ Cardinality({pk \in DOMAIN relationships :
                        relationships[pk].child = request.slug}) >= 2

\* no two relationships of one parent share an alias
UniqueAliasPerParent ==
    \A a, b \in DOMAIN relationships :
        (relationships[a].parent = relationships[b].parent
            /\ relationships[a].alias = relationships[b].alias) => a = b

\* C8: no two subproject relationships of one parent ever share an alias; a
\* create whose alias is used under the parent of the URL fails with a
\* validation error on the field alias and changes no relationship; a create
\* with an alias free under that parent (whoever else uses it) succeeds; the
\* relationship created has the project of the URL as parent, whatever the
\* body says.
C8_AliasUniquePerParent ==
    /\ []UniqueAliasPerParent
    /\ [][request'.op = "subprojects.create" =>
            \A u \in Users :
              LET s == request'.slug
                  b == request'.body
                  used == \E pk \in DOMAIN relationships :
                             /\ relationships[pk].parent = s
                             /\ relationships[pk].alias = b.alias
                  childOk == b.child \in DOMAIN projects /\ b.child # s
              IN (SubprojectsCreate(u, s, b) /\ ParentResolves(u, s) /\ IsProjectAdmin(u, s))
                 => /\ used => /\ response'.status = HTTP_400_BAD_REQUEST
                               /\ "alias" \in response'.errors
                               /\ relationships' = relationships
                    /\ (~used /\ childOk)
                         => /\ response'.status = HTTP_201_CREATED
                            /\ DOMAIN relationships' = DOMAIN relationships \cup {response'.instance}
                            /\ response'.instance \notin DOMAIN relationships
                            /\ relationships'[response'.instance] =
                                  [parent |-> s, child |-> b.child, alias |-> b.alias]
                            /\ \A pk \in DOMAIN relationships :
                                  relationships'[pk] = relationships[pk]]_vars

\* a create succeeded with an alias that another parent uses already, and
\* with a body naming another parent than the URL
C8_Witness ==
    /\ request.op = "subprojects.create"
    /\ response.status = HTTP_201_CREATED
    /\ request.body.parent # request.slug
    /\ relationships[response.instance].parent = request.slug
    /\ \E pk \in DOMAIN relationships :
          /\ relationships[pk].alias = request.body.alias
          /\ relationships[pk].parent # request.slug

\* a create was refused for its alias
C8_WitnessRefused ==
    /\ request.op = "subprojects.create"
    /\ response.status = HTTP_400_BAD_REQUEST
    /\ "alias" \in response.errors

(***************************************************************************)
(* Serializer resolution: get_serializer_class of every viewset.           *)
(***************************************************************************)
\* the bases of ProjectsViewSetBase, and its @action superproject
ProjectsActions ==
    CreateModelMixin \cup UpdateModelMixin \cup ReadOnlyModelViewSet \cup {"superproject"}

BuildsActions == ReadOnlyModelViewSet

Viewsets ==
    {"ProjectsViewSetBase", "SubprojectRelationshipViewSet", "VersionsViewSet",
     "BuildsViewSet", "BuildsCreateViewSet", "RedirectsViewSet",
     "EnvironmentVariablesViewSet"}

\* the actions the router binds to HTTP methods for a viewset
RoutedActions(viewset) ==
    CASE viewset = "ProjectsViewSetBase" -> ProjectsActions
      [] viewset = "SubprojectRelationshipViewSet" -> SubprojectsActions
      [] viewset = "VersionsViewSet" -> VersionsActions
      [] viewset = "BuildsViewSet" -> BuildsActions
      [] viewset = "BuildsCreateViewSet" -> BuildsCreateActions
      [] viewset = "RedirectsViewSet" -> RedirectsActions
      [] viewset = "EnvironmentVariablesViewSet" -> EnvironmentVariablesActions

\* every value self.action takes: the actions of the mixins, the @action of
\* the projects, and "metadata", the action of an OPTIONS request, which
\* metadata_class = SimpleMetadata answers for every viewset
ActionNames == ModelViewSet \cup {"superproject", "metadata"}

\* self.get_serializer_class() of a viewset whose self.action is action
GetSerializerClass(viewset, action) ==
    CASE viewset = "ProjectsViewSetBase" -> ProjectsGetSerializerClass(action)
      [] viewset = "SubprojectRelationshipViewSet" -> SubprojectsGetSerializerClass(action)
      [] viewset = "VersionsViewSet" -> VersionsGetSerializerClass(action)
      [] viewset = "BuildsViewSet" -> BuildsGetSerializerClass(action)
      [] viewset = "BuildsCreateViewSet" -> BuildsCreateGetSerializerClass(action)
      [] viewset = "RedirectsViewSet" -> RedirectsGetSerializerClass(action)
      [] viewset = "EnvironmentVariablesViewSet" ->
            EnvironmentVariablesGetSerializerClass(action)

\* get_serializer: resolves the class and instantiates it.  Calling the
\* result None raises TypeError, which nothing catches.
GetSerializer(viewset, action) ==
    /\ Accept
    /\ request' = [op |-> "get_serializer", viewset |-> viewset, action |-> action]
    /\ response' =
          LET serializer_class == GetSerializerClass(viewset, action)
          IN IF serializer_class = "None"
             THEN ErrorResponse("get_serializer", HTTP_500_INTERNAL_SERVER_ERROR)
             ELSE [op |-> "get_serializer", status |-> HTTP_200_OK,
                   schema |-> serializer_class]
    /\ UNCHANGED tables

\* serializer resolution, in every state the endpoints of the projects reach
NextSerializers ==
    \/ \E vs \in Viewsets, a \in ActionNames : GetSerializer(vs, a)
    \/ NextProjects

SpecSerializers == Init /\ [][NextSerializers]_vars

(***************************************************************************)
(* Claims about serializer resolution.                                     *)
(***************************************************************************)
\* the full read schema of the resource of a viewset
ReadSchemas(viewset) ==
    CASE viewset = "ProjectsViewSetBase" -> "ProjectSerializer"
      [] viewset = "SubprojectRelationshipViewSet" -> "SubprojectSerializer"
      [] viewset = "VersionsViewSet" -> "VersionSerializer"
      [] viewset \in {"BuildsViewSet", "BuildsCreateViewSet"} -> "BuildSerializer"
      [] viewset = "RedirectsViewSet" -> "RedirectDetailSerializer"
      [] viewset = "EnvironmentVariablesViewSet" -> "EnvironmentVariableSerializer"

\* the write schemas of the resource of a viewset
WriteSchemas(viewset) ==
    CASE viewset = "ProjectsViewSetBase" ->
            {"ProjectCreateSerializer", "ProjectUpdateSerializer"}
      [] viewset = "SubprojectRelationshipViewSet" -> {"SubprojectCreateSerializer"}
      [] viewset = "VersionsViewSet" -> {"VersionUpdateSerializer"}
      [] viewset \in {"BuildsViewSet", "BuildsCreateViewSet"} -> {"BuildCreateSerializer"}
      [] viewset = "RedirectsViewSet" -> {"RedirectCreateSerializer"}
      [] viewset = "EnvironmentVariablesViewSet" -> {"EnvironmentVariableSerializer"}

\* the actions the mapping of a viewset names: the routed reads and writes
MappedActions(viewset) == RoutedActions(viewset) \ {"destroy"}

\* what the resolution of a mapped action answers: the read schema for a
\* read, a write schema for a write
ResolvedAsMapped(viewset, action, schema) ==
    /\ action \in {"list", "retrieve", "superproject"} => schema = ReadSchemas(viewset)
    /\ action \in {"create", "update", "partial_update"} => schema \in WriteSchemas(viewset)

\* C11: serializer resolution is total for every viewset: a routed action
\* resolves to a defined schema (the read schema for list, retrieve and the
\* read-only custom action, a write schema for create, update and
\* partial_update), and an action outside the mapping is a configuration
\* error that fails fast: it resolves to no schema at all, neither to a
\* default schema nor to None.
C11_ResolutionTotalOrFailFast ==
    request.op = "get_serializer" =>
        IF request.action \in MappedActions(request.viewset)
        THEN /\ response.status = HTTP_200_OK
             /\ ResolvedAsMapped(request.viewset, request.action, response.schema)
        ELSE IF request.action \in RoutedActions(request.viewset)
        THEN response.schema # "None"
        ELSE response.schema = "ImproperlyConfigured"

\* the half of C11 the code keeps: every routed action resolves to a defined
\* schema of the right kind
C11_RoutedActionsResolve ==
    (request.op = "get_serializer" /\ request.action \in RoutedActions(request.viewset))
        => /\ response.status = HTTP_200_OK
           /\ response.schema # "None"
           /\ request.action \in MappedActions(request.viewset)
                => ResolvedAsMapped(request.viewset, request.action, response.schema)

\* an OPTIONS request on the projects resolved to None
C11_WitnessUndefined ==
    /\ request.op = "get_serializer"
    /\ request.viewset = "ProjectsViewSetBase"
    /\ request.action = "metadata"
    /\ response.schema = "None"
    /\ response.status = HTTP_500_INTERNAL_SERVER_ERROR

\* an action outside the mapping of the versions resolved to the default
C11_WitnessSilentDefault ==
    /\ request.op = "get_serializer"
    /\ request.viewset = "VersionsViewSet"
    /\ request.action \notin RoutedActions("VersionsViewSet")
    /\ response.schema = "VersionUpdateSerializer"

(***************************************************************************)
(* The whole API.                                                          *)
(***************************************************************************)
Next ==
    \/ NextProjects
    \/ NextSubprojects
    \/ NextVersions
    \/ NextBuilds
    \/ NextRedirects
    \/ NextEnvironmentVariables
    \/ NextSerializers

Spec == Init /\ [][Next]_vars

=============================================================================
